---------------------------- MODULE Spec2Model ----------------------------
(***************************************************************************)
(* Model of PayAutomationAPP.py: three CSV tables (agent roster, project   *)
(* timers, raw Hubstaff export) are read, schema-checked, validated,       *)
(* normalized, left-joined twice, given a Total, and written out as the    *)
(* complete view and the data-ready-for-upload view.                       *)
(*                                                                         *)
(* Text is a sequence of pieces: a piece is one character (digits, ":",    *)
(* ".", "$", " ") or one word fragment ("a", "QA", "@invisible.email").    *)
(* A missing cell (pandas NaN) is the one-piece sequence NaN.  Numbers     *)
(* (rates and totals in cents, durations in seconds) are integers, with    *)
(* NullNum for a missing number.                                           *)
(***************************************************************************)
EXTENDS Integers, Sequences, FiniteSets, TLC

VARIABLES
    pc,               \* position of the script
    error,            \* the st.error / exception that ended the run, or "none"
    missing,          \* the column names check_columns reported
    today,            \* pd.Timestamp.today().normalize()
    roster_file, timers_file, rawhs_file,   \* the uploaded CSV contents
    roster, timers, raw_hs,                 \* the DataFrames
    warnings_roster, warnings_timers, warnings_rawhs,
    merged,           \* the joined DataFrame
    complete_csv,     \* rows written to complete_view.csv
    upload_csv        \* rows written to data_ready_for_upload.csv

vars == <<pc, error, missing, today, roster_file, timers_file, rawhs_file,
          roster, timers, raw_hs, warnings_roster, warnings_timers,
          warnings_rawhs, merged, complete_csv, upload_csv>>

---------------------------------------------------------------------------
(* Text and numbers *)

NaN == <<"<NaN>">>
NullNum == 0 - 1
NaT == [y |-> 0, m |-> 0, d |-> 0]

IsNa(c) == c = NaN

Whitespace == {" "}
Digits == {"0", "1", "2", "3", "4", "5", "6", "7", "8", "9"}

DigitVal(p) ==
    CASE p = "0" -> 0 [] p = "1" -> 1 [] p = "2" -> 2 [] p = "3" -> 3
      [] p = "4" -> 4 [] p = "5" -> 5 [] p = "6" -> 6 [] p = "7" -> 7
      [] p = "8" -> 8 [] p = "9" -> 9

SetMin(S) == CHOOSE x \in S : \A y \in S : x <= y
SetMax(S) == CHOOSE x \in S : \A y \in S : x >= y

\* str.strip(): drop leading and trailing whitespace
Strip(s) ==
    LET keep == {i \in 1..Len(s) : s[i] \notin Whitespace}
    IN  IF keep = {} THEN <<>> ELSE SubSeq(s, SetMin(keep), SetMax(keep))

LowerPiece(p) ==
    CASE p = "A" -> "a"
      [] p = "B" -> "b"
      [] p = "P" -> "p"
      [] p = "QA" -> "qa"
      [] p = "Lead" -> "lead"
      [] p = "@Invisible.Email" -> "@invisible.email"
      [] OTHER -> p

\* str.lower()
Lower(s) == [i \in 1..Len(s) |-> LowerPiece(s[i])]

\* str.endswith(suffix)
EndsWith(s, suffix) ==
    /\ Len(s) >= Len(suffix)
    /\ SubSeq(s, Len(s) - Len(suffix) + 1, Len(s)) = suffix

\* astype(str) and str(t): a missing value becomes the text "nan"
AsStr(c) == IF IsNa(c) THEN <<"nan">> ELSE c

\* the text read_csv parses as a number: digits with at most one "."
IsNumericText(c) ==
    /\ ~IsNa(c)
    /\ Len(c) > 0
    /\ \A i \in 1..Len(c) : c[i] \in Digits \cup {"."}
    /\ Cardinality({i \in 1..Len(c) : c[i] = "."}) <= 1
    /\ \E i \in 1..Len(c) : c[i] \in Digits

RECURSIVE DigitsToInt(_)
DigitsToInt(s) ==
    IF s = <<>> THEN 0
    ELSE 10 * DigitsToInt(SubSeq(s, 1, Len(s) - 1)) + DigitVal(s[Len(s)])

SeqToSet(s) == {s[i] : i \in 1..Len(s)}


RECURSIVE SortedSeq(_)
SortedSeq(S) ==
    IF S = {} THEN <<>> ELSE <<SetMin(S)>> \o SortedSeq(S \ {SetMin(S)})

---------------------------------------------------------------------------
(* DataFrames: columns in order, index labels, rows (column name -> cell), *)
(* and the columns read_csv gave a numeric dtype                           *)

EmptyFrame == [columns |-> <<>>, index |-> <<>>, data |-> <<>>, numeric |-> {}]

NRows(df) == Len(df.data)

HasColumn(df, col) == \E i \in 1..Len(df.columns) : df.columns[i] = col

\* positions of the rows of df whose position is in S, as index labels
LabelsAt(df, S) == LET pos == SortedSeq(S) IN [k \in 1..Len(pos) |-> df.index[pos[k]]]

\* pd.read_csv: a column whose every cell is missing or a number gets a
\* numeric dtype (a file without data rows gives object columns)
read_csv(file) ==
    [columns |-> file.columns,
     index   |-> [i \in 1..Len(file.data) |-> i - 1],
     data    |-> file.data,
     numeric |-> {c \in SeqToSet(file.columns) :
                     /\ Len(file.data) > 0
                     /\ \A i \in 1..Len(file.data) :
                            IsNa(file.data[i][c]) \/ IsNumericText(file.data[i][c])}]

\* df.dropna(how="all", inplace=True): the index labels of the rows kept stay
dropna(df) ==
    LET keep == SortedSeq({i \in 1..NRows(df) :
                     \E c \in SeqToSet(df.columns) : ~IsNa(df.data[i][c])})
    IN  [df EXCEPT !.index = [k \in 1..Len(keep) |-> df.index[keep[k]]],
                   !.data  = [k \in 1..Len(keep) |-> df.data[keep[k]]]]

RosterRequired == <<"Agent Email", "Rate", "Team">>
TimersRequired == <<"Team", "Hubstaff Project Names", "Pay Commodity",
                    "Process Name (App)", "Process ID">>
RawhsRequired  == <<"Client", "Project", "Date", "Member", "Work email", "Time">>

\* a check that reports only the first absent column
check_columns_first(df, required_cols) ==
    LET absent(col) == ~HasColumn(df, col)
        all == SelectSeq(required_cols, absent)
    IN  IF all = <<>> THEN <<>> ELSE <<all[1]>>

\* missing = [col for col in required_cols if col not in df.columns]
check_columns(df, required_cols) ==
    LET absent(col) == ~HasColumn(df, col) IN SelectSeq(required_cols, absent)

\* Series.fillna("").str raises AttributeError on a numeric column in which
\* fillna found nothing to fill
StrFails(df, col) ==
    /\ col \in df.numeric
    /\ \A i \in 1..NRows(df) : ~IsNa(df.data[i][col])

\* ~series on the result of .str.endswith raises TypeError when a float cell
\* of a numeric column gave NaN instead of a bool
InvertFails(df, col) ==
    /\ col \in df.numeric
    /\ \E i \in 1..NRows(df) : ~IsNa(df.data[i][col])

\* series.fillna("").str.strip().eq(""), at row i
EmptyAt(df, col, i) ==
    LET c == df.data[i][col]
    IN  IF IsNa(c) THEN TRUE
        ELSE IF col \in df.numeric THEN FALSE
        ELSE Strip(c) = <<>>

\* df[df[col].fillna("").str.strip().eq("")].index
EmptyIdx(df, col) == LabelsAt(df, {i \in 1..NRows(df) : EmptyAt(df, col, i)})

InvisibleDomain == <<"@invisible.email">>

\* df[~df[col].fillna("").str.strip().str.lower().str.endswith("@invisible.email")].index
BadDomainIdx(df, col) ==
    LabelsAt(df, {i \in 1..NRows(df) :
        ~EndsWith(Lower(Strip(IF IsNa(df.data[i][col]) THEN <<>> ELSE df.data[i][col])),
                  InvisibleDomain)})

Warning(summary, details) ==
    [summary |-> summary, details |-> details, agent_rows |-> {}]

\* warnings.append((summary, list(idx))) if not idx.empty
AppendIfAny(warnings, summary, idx) ==
    IF idx # <<>> THEN Append(warnings, Warning(summary, idx)) ELSE warnings

---------------------------------------------------------------------------
(* Pre-merge validations *)

\* one validation step: whether it raises, and the warnings it appends
Check(fails, warns) == [fails |-> fails, warns |-> warns]

EmptyCheck(df, col, summary) ==
    Check(StrFails(df, col), AppendIfAny(<<>>, summary, EmptyIdx(df, col)))

\* the position of the first step that raises (Len + 1 when none does)
FirstFailure(checks) ==
    SetMin({i \in 1..Len(checks) : checks[i].fails} \cup {Len(checks) + 1})

RECURSIVE Concat(_, _)
Concat(ss, n) == IF n = 0 THEN <<>> ELSE Concat(ss, n - 1) \o ss[n]

\* the warnings appended before the first step that raises
Collected(checks) ==
    Concat([i \in 1..Len(checks) |-> checks[i].warns], FirstFailure(checks) - 1)

Raises(checks) == FirstFailure(checks) <= Len(checks)

\* roster.groupby("Agent Email")["Rate"].nunique(): groups by the email as
\* written (rows without email are left out), counts the distinct rates as
\* written (missing rates are not counted)
RateNunique(df, agent) ==
    Cardinality({df.data[i]["Rate"] : i \in {j \in 1..NRows(df) :
                    /\ df.data[j]["Agent Email"] = agent
                    /\ ~IsNa(df.data[j]["Rate"])}})

multi_rate_agents(df) ==
    {agent \in {df.data[i]["Agent Email"] : i \in 1..NRows(df)} :
        ~IsNa(agent) /\ RateNunique(df, agent) > 1}

\* agent_rows[agent] = list(roster[roster["Agent Email"] == agent].index)
agent_rows(df) ==
    {[agent |-> agent,
      rows  |-> LabelsAt(df, {i \in 1..NRows(df) : df.data[i]["Agent Email"] = agent})] :
        agent \in multi_rate_agents(df)}

MultiRateWarns(df) ==
    IF multi_rate_agents(df) # {}
    THEN <<[summary |-> "Multiple Rates for Agent", details |-> <<>>,
            agent_rows |-> agent_rows(df)]>>
    ELSE <<>>

RosterChecks(df) ==
    << EmptyCheck(df, "Agent Email", "Empty 'Agent Email'"),
       EmptyCheck(df, "Rate", "Empty 'Rate'"),
       EmptyCheck(df, "Team", "Empty 'Team'"),
       Check(StrFails(df, "Agent Email") \/ InvertFails(df, "Agent Email"),
             AppendIfAny(<<>>, "Invalid Email Domain", BadDomainIdx(df, "Agent Email"))),
       Check(FALSE, MultiRateWarns(df)) >>

allowed == {"operate", "qa", "lead", "incentive", "audit"}

NonWord == {" ", "-", "/", "$", ":", ".", ","}

\* pattern.search(x) for r'\b(?:operate|qa|lead|incentive|audit)\b', IGNORECASE
PatternSearch(x) ==
    \E i \in 1..Len(x) :
        /\ LowerPiece(x[i]) \in allowed
        /\ (i = 1 \/ x[i - 1] \in NonWord)
        /\ (i = Len(x) \/ x[i + 1] \in NonWord)

empty_commodity_idx(df) == EmptyIdx(df, "Pay Commodity")

invalid_commodity_idx(df) ==
    LabelsAt(df, {i \in 1..NRows(df) :
        ~PatternSearch(Strip(IF IsNa(df.data[i]["Pay Commodity"]) THEN <<>>
                             ELSE df.data[i]["Pay Commodity"]))})

\* lines 89-97: the keyword check is the else branch of the emptiness check
PayCommodityWarns(df) ==
    IF empty_commodity_idx(df) # <<>>
    THEN <<Warning("Empty 'Pay Commodity'", empty_commodity_idx(df))>>
    ELSE AppendIfAny(<<>>, "Invalid 'Pay Commodity'", invalid_commodity_idx(df))

empty_process_idx(df) ==
    LabelsAt(df, {i \in 1..NRows(df) :
        EmptyAt(df, "Process ID", i) \/ EmptyAt(df, "Process Name (App)", i)})

TimersChecks(df) ==
    << EmptyCheck(df, "Team", "Empty 'Team'"),
       EmptyCheck(df, "Hubstaff Project Names", "Empty 'Hubstaff Project Names'"),
       Check(StrFails(df, "Pay Commodity"), PayCommodityWarns(df)),
       Check(StrFails(df, "Process ID") \/ StrFails(df, "Process Name (App)"),
             AppendIfAny(<<>>, "Empty Process Details", empty_process_idx(df))) >>


(* Dates and the pay cycle *)

Timestamp(y, m, d) == [y |-> y, m |-> m, d |-> d]

IsLeap(y) == (y % 4 = 0 /\ y % 100 # 0) \/ y % 400 = 0

DaysInMonth(y, m) ==
    IF m = 2 THEN (IF IsLeap(y) THEN 29 ELSE 28)
    ELSE IF m \in {4, 6, 9, 11} THEN 30 ELSE 31

AllDigits(s) == \A i \in 1..Len(s) : s[i] \in Digits

\* pd.to_datetime(cell, errors="coerce") for a date written YYYY-MM-DD; any
\* other text, and a missing cell, gives NaT
to_datetime(c) ==
    IF IsNa(c) \/ Len(c) # 10 THEN NaT
    ELSE IF ~(/\ AllDigits(SubSeq(c, 1, 4)) /\ c[5] = "-"
              /\ AllDigits(SubSeq(c, 6, 7)) /\ c[8] = "-"
              /\ AllDigits(SubSeq(c, 9, 10))) THEN NaT
    ELSE LET y == DigitsToInt(SubSeq(c, 1, 4))
             m == DigitsToInt(SubSeq(c, 6, 7))
             d == DigitsToInt(SubSeq(c, 9, 10))
         IN  IF m \in 1..12 /\ d >= 1 /\ d <= DaysInMonth(y, m)
             THEN Timestamp(y, m, d) ELSE NaT

TsLE(a, b) ==
    \/ a.y < b.y
    \/ a.y = b.y /\ a.m < b.m
    \/ a.y = b.y /\ a.m = b.m /\ a.d <= b.d

CycleSplitDay == 15

start_cycle(t) ==
    IF t.d <= CycleSplitDay THEN Timestamp(t.y, t.m, 1)
    ELSE Timestamp(t.y, t.m, CycleSplitDay + 1)

end_cycle(t) ==
    IF t.d <= CycleSplitDay THEN Timestamp(t.y, t.m, CycleSplitDay)
    ELSE Timestamp(t.y, t.m, DaysInMonth(t.y, t.m))

\* series.between(start, end): inclusive, False for NaT
Between(ts, lo, hi) == ts # NaT /\ TsLE(lo, ts) /\ TsLE(ts, hi)

out_of_cycle_idx(df, t) ==
    LabelsAt(df, {i \in 1..NRows(df) :
        ~Between(to_datetime(df.data[i]["Date"]), start_cycle(t), end_cycle(t))})

RawhsChecks(df, t) ==
    << EmptyCheck(df, "Client", "Empty 'Client'"),
       EmptyCheck(df, "Project", "Empty 'Project'"),
       EmptyCheck(df, "Date", "Empty 'Date'"),
       Check(FALSE, AppendIfAny(<<>>, "Date Outside Cycle", out_of_cycle_idx(df, t))),
       EmptyCheck(df, "Member", "Empty 'Member'"),
       EmptyCheck(df, "Work email", "Empty 'Work email'"),
       Check(StrFails(df, "Work email") \/ InvertFails(df, "Work email"),
             AppendIfAny(<<>>, "Invalid 'Work email' Domain",
                         BadDomainIdx(df, "Work email"))),
       EmptyCheck(df, "Time", "Empty 'Time'") >>

\* the position in RawhsChecks after which raw_hs["Date"] holds timestamps
DateStep == 3

\* df[col] = values
SetColumn(df, col, values) ==
    [df EXCEPT !.data = [i \in 1..NRows(df) |->
                            [df.data[i] EXCEPT ![col] = values[i]]]]

---------------------------------------------------------------------------
(* Normalization *)

\* series.astype(str).str.strip().str.lower()
NormalizeEmail(c) == Lower(Strip(AsStr(c)))

\* str.replace("[^0-9.]", "", regex=True)
KeepNumeric(s) == LET numeric(p) == p \in Digits \cup {"."} IN SelectSeq(s, numeric)

\* the value of a numeric text in hundredths (two decimals are kept)
Hundredths(s) ==
    LET dots == {i \in 1..Len(s) : s[i] = "."}
        dot  == IF dots = {} THEN Len(s) + 1 ELSE SetMin(dots)
        frac == SubSeq(s, dot + 1, Len(s))
    IN  100 * DigitsToInt(SubSeq(s, 1, dot - 1))
        + (IF Len(frac) = 0 THEN 0
           ELSE IF Len(frac) = 1 THEN 10 * DigitVal(frac[1])
           ELSE DigitsToInt(SubSeq(frac, 1, 2)))

\* pd.to_numeric(text, errors="coerce")
to_numeric(s) == IF IsNumericText(s) THEN Hundredths(s) ELSE NullNum

\* lines 163-164
NormalizeRate(c) == to_numeric(KeepNumeric(AsStr(c)))


---------------------------------------------------------------------------
(* The joins *)

\* the missing value of a column: numbers for Rate and Total, NaT for Date
NullOf(col) ==
    IF col \in {"Rate", "Total"} THEN NullNum
    ELSE IF col = "Date" THEN NaT ELSE NaN

\* df[[c1, c2, ...]]
SelectColumns(df, cols) ==
    [df EXCEPT !.columns = cols,
               !.data = [i \in 1..NRows(df) |-> [c \in SeqToSet(cols) |-> df.data[i][c]]],
               !.numeric = df.numeric \cap SeqToSet(cols)]

\* pandas refuses to join a numeric key column with an object key column
\* (the check is skipped when exactly one of the frames has no rows)
MergeRaises(left, right, left_on, right_on) ==
    /\ (left_on \in left.numeric) # (right_on \in right.numeric)
    /\ (NRows(left) = 0) = (NRows(right) = 0)

\* column names of the result: a name both frames carry gets _x and _y
LeftName(left, right, c) == IF HasColumn(right, c) THEN c \o "_x" ELSE c
RightName(left, right, c) == IF HasColumn(left, c) THEN c \o "_y" ELSE c

\* a join that trims the keys before comparing them
MatchesStripped(left, right, left_on, right_on, i) ==
    SortedSeq({j \in 1..NRows(right) :
                  Strip(right.data[j][right_on]) = Strip(left.data[i][left_on])})

\* the right rows whose key equals the key of left row i, in right order
\* (a missing key matches a missing key)
Matches(left, right, left_on, right_on, i) ==
    SortedSeq({j \in 1..NRows(right) :
                  right.data[j][right_on] = left.data[i][left_on]})

\* left row i joined with right row j (j = 0: no match, right cells missing)
JoinRow(left, right, i, j) ==
    LET lcols == SeqToSet(left.columns)
        rcols == SeqToSet(right.columns)
        names == {LeftName(left, right, c) : c \in lcols}
                   \cup {RightName(left, right, c) : c \in rcols}
    IN  [n \in names |->
            IF \E c \in lcols : LeftName(left, right, c) = n
            THEN left.data[i][CHOOSE c \in lcols : LeftName(left, right, c) = n]
            ELSE LET c == CHOOSE c \in rcols : RightName(left, right, c) = n
                 IN  IF j = 0 THEN NullOf(c) ELSE right.data[j][c]]

\* the result rows left row i gives: one per matching right row, or one
\* with the right cells missing
JoinRowsOf(left, right, left_on, right_on, i) ==
    LET m == Matches(left, right, left_on, right_on, i)
    IN  IF m = <<>> THEN <<JoinRow(left, right, i, 0)>>
        ELSE [k \in 1..Len(m) |-> JoinRow(left, right, i, m[k])]

\* pd.merge(left, right, left_on=..., right_on=..., how="left")
merge(left, right, left_on, right_on) ==
    LET rows == Concat([i \in 1..NRows(left) |->
                           JoinRowsOf(left, right, left_on, right_on, i)], NRows(left))
    IN  [columns |-> [k \in 1..Len(left.columns) |->
                         LeftName(left, right, left.columns[k])]
                     \o [k \in 1..Len(right.columns) |->
                         RightName(left, right, right.columns[k])],
         index   |-> [k \in 1..Len(rows) |-> k - 1],
         data    |-> rows,
         numeric |-> {LeftName(left, right, c) : c \in left.numeric}
                       \cup {RightName(left, right, c) : c \in right.numeric}]

\* merged.drop(columns=[col], inplace=True)
DropColumn(df, col) ==
    LET keep(c) == c # col
        cols == SelectSeq(df.columns, keep)
    IN  [df EXCEPT !.columns = cols,
                   !.data = [i \in 1..NRows(df) |->
                               [c \in SeqToSet(cols) |-> df.data[i][c]]],
                   !.numeric = df.numeric \ {col}]

RosterKeyColumns == <<"Agent Email", "Rate">>
TimersJoinColumns == <<"Hubstaff Project Names", "Team", "Pay Commodity",
                       "Process Name (App)", "Process ID">>

\* lines 168-174
MergeRoster(raw, ros) == merge(raw, SelectColumns(ros, RosterKeyColumns), "Work email", "Agent Email")

\* lines 176-182
MergeTimers(m, tim) ==
    merge(m, SelectColumns(tim, TimersJoinColumns), "Project", "Hubstaff Project Names")

\* lines 184-185
DropAgentEmail(m) == IF HasColumn(m, "Agent Email") THEN DropColumn(m, "Agent Email") ELSE m

\* lines 166-188: whether the try block raises
MergeStageRaises(raw, ros, tim) ==
    \/ MergeRaises(raw, SelectColumns(ros, RosterKeyColumns), "Work email", "Agent Email")
    \/ MergeRaises(MergeRoster(raw, ros), SelectColumns(tim, TimersJoinColumns),
                   "Project", "Hubstaff Project Names")

MergeStage(raw, ros, tim) == DropAgentEmail(MergeTimers(MergeRoster(raw, ros), tim))

---------------------------------------------------------------------------
(* Time, Total and the two views *)

Count(s, p) == Cardinality({i \in 1..Len(s) : s[i] = p})

\* lines 191-197
normalize_time_format(t) ==
    LET t_str == Strip(AsStr(t))
    IN  IF t_str = <<>> THEN t_str
        ELSE IF Count(t_str, ":") = 1 THEN t_str \o <<":", "0", "0">>
        ELSE t_str

SecondsPerHour == 3600

\* pd.to_timedelta(text, errors="coerce").total_seconds(): H:M:S gives its
\* seconds, bare digits are nanoseconds (no whole second), the rest is NaT
to_timedelta(s) ==
    LET colons == SortedSeq({i \in 1..Len(s) : s[i] = ":"})
    IN  IF Len(colons) = 0 /\ Len(s) > 0 /\ AllDigits(s) THEN 0
        ELSE IF Len(colons) # 2 THEN NullNum
        ELSE LET h   == SubSeq(s, 1, colons[1] - 1)
                 m   == SubSeq(s, colons[1] + 1, colons[2] - 1)
                 sec == SubSeq(s, colons[2] + 1, Len(s))
             IN  IF \A part \in {h, m, sec} : Len(part) > 0 /\ AllDigits(part)
                 THEN SecondsPerHour * DigitsToInt(h) + 60 * DigitsToInt(m)
                      + DigitsToInt(sec)
                 ELSE NullNum

\* n / d rounded half to even
RoundDiv(n, d) ==
    LET q == n \div d
        r == n % d
    IN  IF 2 * r < d THEN q
        ELSE IF 2 * r > d THEN q + 1
        ELSE IF q % 2 = 0 THEN q ELSE q + 1

\* (Time_in_hours * Rate).round(2), in hundredths; missing if either is
Total(seconds, rate) ==
    IF seconds = NullNum \/ rate = NullNum THEN NullNum
    ELSE RoundDiv(seconds * rate, SecondsPerHour)

\* line 199
WithTime(m) ==
    SetColumn(m, "Time", [i \in 1..NRows(m) |-> normalize_time_format(m.data[i]["Time"])])

\* lines 199-205 on the joined frame
WithTotal(m) ==
    LET timed == WithTime(m)
    IN  [timed EXCEPT
            !.columns = IF HasColumn(m, "Total") THEN @ ELSE Append(@, "Total"),
            !.data = [i \in 1..NRows(m) |->
                        [c \in DOMAIN timed.data[i] \cup {"Total"} |->
                            IF c = "Total"
                            THEN Total(to_timedelta(timed.data[i]["Time"]),
                                       timed.data[i]["Rate"])
                            ELSE timed.data[i][c]]],
            !.numeric = @ \cup {"Total"}]

\* merged["Rate"] raises KeyError when the join renamed the column
TotalStageRaises(m) == ~HasColumn(m, "Rate")

RECURSIVE IntToDigits(_)
IntToDigits(n) ==
    IF n < 10 THEN <<ToString(n)>> ELSE IntToDigits(n \div 10) \o <<ToString(n % 10)>>

Pad2(n) == IF n < 10 THEN <<"0">> \o IntToDigits(n) ELSE IntToDigits(n)

\* a float in a CSV field: 15.0, 12.5, 31.25
FormatNumber(n) ==
    IntToDigits(n \div 100) \o <<".">>
        \o (IF n % 10 = 0 THEN IntToDigits((n % 100) \div 10)
            ELSE <<ToString((n % 100) \div 10), ToString(n % 10)>>)

\* to_csv writes a missing value as an empty field
CsvField(col, v) ==
    IF col \in {"Rate", "Total"}
    THEN (IF v = NullNum THEN <<>> ELSE FormatNumber(v))
    ELSE IF col = "Date"
    THEN (IF v = NaT THEN <<>>
          ELSE IntToDigits(v.y) \o <<"-">> \o Pad2(v.m) \o <<"-">> \o Pad2(v.d))
    ELSE (IF IsNa(v) THEN <<>> ELSE v)

NoCsv == [written |-> FALSE, header |-> <<>>, rows |-> <<>>]

\* df.to_csv(index=False)
to_csv(df) ==
    [written |-> TRUE,
     header  |-> df.columns,
     rows    |-> [i \in 1..NRows(df) |->
                    [c \in DOMAIN df.data[i] |-> CsvField(c, df.data[i][c])]]]

UploadSources == <<"Work email", "Process ID", "Time", "Rate", "Pay Commodity">>
UploadColumns == <<"Email", "Process ID", "Hours", "Rate", "Commodity Name">>

\* lines 217-223
upload_df(m) ==
    [columns |-> UploadColumns,
     index   |-> m.index,
     data    |-> [i \in 1..NRows(m) |->
                    [c \in SeqToSet(UploadColumns) |->
                        m.data[i][UploadSources[CHOOSE k \in 1..Len(UploadColumns) :
                                                    UploadColumns[k] = c]]]],
     numeric |-> {"Rate"}]

UploadStageRaises(m) == check_columns(m, UploadSources) # <<>>

---------------------------------------------------------------------------
(* The script, step by step *)

Stop(msg) == pc' = "stopped" /\ error' = msg

\* lines 28-40
ReadCSV ==
    /\ pc = "read"
    /\ IF \E f \in {roster_file, timers_file, rawhs_file} : f.columns = <<>>
       THEN /\ Stop("Error reading CSV files")
            /\ UNCHANGED <<roster, timers, raw_hs>>
       ELSE /\ roster' = dropna(read_csv(roster_file))
            /\ timers' = dropna(read_csv(timers_file))
            /\ raw_hs' = dropna(read_csv(rawhs_file))
            /\ pc' = "check_columns"
            /\ UNCHANGED error
    /\ UNCHANGED <<missing, today, roster_file, timers_file, rawhs_file,
                   warnings_roster, warnings_timers, warnings_rawhs, merged,
                   complete_csv, upload_csv>>

\* lines 42-45: the first table that lacks a column stops the script
CheckColumns ==
    /\ pc = "check_columns"
    /\ IF check_columns(roster, RosterRequired) # <<>>
       THEN /\ missing' = check_columns(roster, RosterRequired)
            /\ Stop("Roster file is missing required columns")
       ELSE IF check_columns(timers, TimersRequired) # <<>>
       THEN /\ missing' = check_columns(timers, TimersRequired)
            /\ Stop("Timers file is missing required columns")
       ELSE IF check_columns(raw_hs, RawhsRequired) # <<>>
       THEN /\ missing' = check_columns(raw_hs, RawhsRequired)
            /\ Stop("Raw hs export file is missing required columns")
       ELSE /\ pc' = "roster_validations"
            /\ UNCHANGED <<missing, error>>
    /\ UNCHANGED <<today, roster_file, timers_file, rawhs_file, roster, timers,
                   raw_hs, warnings_roster, warnings_timers, warnings_rawhs,
                   merged, complete_csv, upload_csv>>

\* lines 53-77
RosterValidations ==
    /\ pc = "roster_validations"
    /\ warnings_roster' = Collected(RosterChecks(roster))
    /\ IF Raises(RosterChecks(roster))
       THEN Stop("exception in roster validations")
       ELSE pc' = "timers_validations" /\ UNCHANGED error
    /\ UNCHANGED <<missing, today, roster_file, timers_file, rawhs_file, roster,
                   timers, raw_hs, warnings_timers, warnings_rawhs, merged,
                   complete_csv, upload_csv>>

\* lines 79-104
TimersValidations ==
    /\ pc = "timers_validations"
    /\ warnings_timers' = Collected(TimersChecks(timers))
    /\ IF Raises(TimersChecks(timers))
       THEN Stop("exception in timers validations")
       ELSE pc' = "rawhs_validations" /\ UNCHANGED error
    /\ UNCHANGED <<missing, today, roster_file, timers_file, rawhs_file, roster,
                   timers, raw_hs, warnings_roster, warnings_rawhs, merged,
                   complete_csv, upload_csv>>

\* lines 106-144
RawhsValidations ==
    /\ pc = "rawhs_validations"
    /\ warnings_rawhs' = Collected(RawhsChecks(raw_hs, today))
    /\ raw_hs' = IF FirstFailure(RawhsChecks(raw_hs, today)) > DateStep
                 THEN SetColumn(raw_hs, "Date",
                          [i \in 1..NRows(raw_hs) |-> to_datetime(raw_hs.data[i]["Date"])])
                 ELSE raw_hs
    /\ IF Raises(RawhsChecks(raw_hs, today))
       THEN Stop("exception in raw hs export validations")
       ELSE pc' = "normalize" /\ UNCHANGED error
    /\ UNCHANGED <<missing, today, roster_file, timers_file, rawhs_file, roster,
                   timers, warnings_roster, warnings_timers, merged,
                   complete_csv, upload_csv>>

\* lines 158-164
Normalize ==
    /\ pc = "normalize"
    /\ roster' = [SetColumn(SetColumn(roster, "Agent Email",
                        [i \in 1..NRows(roster) |->
                            NormalizeEmail(roster.data[i]["Agent Email"])]),
                      "Rate",
                      [i \in 1..NRows(roster) |-> NormalizeRate(roster.data[i]["Rate"])])
                    EXCEPT !.numeric = (@ \ {"Agent Email"}) \cup {"Rate"}]
    /\ raw_hs' = [SetColumn(raw_hs, "Work email",
                        [i \in 1..NRows(raw_hs) |->
                            NormalizeEmail(raw_hs.data[i]["Work email"])])
                    EXCEPT !.numeric = @ \ {"Work email"}]
    /\ pc' = "merge"
    /\ UNCHANGED <<error, missing, today, roster_file, timers_file, rawhs_file,
                   timers, warnings_roster, warnings_timers, warnings_rawhs,
                   merged, complete_csv, upload_csv>>

\* lines 166-188
Merge ==
    /\ pc = "merge"
    /\ IF MergeStageRaises(raw_hs, roster, timers)
       THEN Stop("Error merging data") /\ UNCHANGED merged
       ELSE /\ merged' = MergeStage(raw_hs, roster, timers)
            /\ pc' = "total"
            /\ UNCHANGED error
    /\ UNCHANGED <<missing, today, roster_file, timers_file, rawhs_file, roster,
                   timers, raw_hs, warnings_roster, warnings_timers,
                   warnings_rawhs, complete_csv, upload_csv>>

\* lines 190-208
ComputeTotal ==
    /\ pc = "total"
    /\ IF TotalStageRaises(merged)
       THEN /\ Stop("Error computing 'Total'")
            /\ merged' = WithTime(merged)
       ELSE /\ merged' = WithTotal(merged)
            /\ pc' = "complete_csv"
            /\ UNCHANGED error
    /\ UNCHANGED <<missing, today, roster_file, timers_file, rawhs_file, roster,
                   timers, raw_hs, warnings_roster, warnings_timers,
                   warnings_rawhs, complete_csv, upload_csv>>

\* lines 210-214
CompleteView ==
    /\ pc = "complete_csv"
    /\ complete_csv' = to_csv(merged)
    /\ pc' = "upload_csv"
    /\ UNCHANGED <<error, missing, today, roster_file, timers_file, rawhs_file,
                   roster, timers, raw_hs, warnings_roster, warnings_timers,
                   warnings_rawhs, merged, upload_csv>>

\* lines 216-232
UploadView ==
    /\ pc = "upload_csv"
    /\ IF UploadStageRaises(merged)
       THEN Stop("Error creating 'Data ready for upload' CSV") /\ UNCHANGED upload_csv
       ELSE /\ upload_csv' = to_csv(upload_df(merged))
            /\ pc' = "done"
            /\ UNCHANGED error
    /\ UNCHANGED <<missing, today, roster_file, timers_file, rawhs_file, roster,
                   timers, raw_hs, warnings_roster, warnings_timers,
                   warnings_rawhs, merged, complete_csv>>

Next ==
    \/ ReadCSV
    \/ CheckColumns
    \/ RosterValidations
    \/ TimersValidations
    \/ RawhsValidations
    \/ Normalize
    \/ Merge
    \/ ComputeTotal
    \/ CompleteView
    \/ UploadView

---------------------------------------------------------------------------
(* Inputs *)

\* cells
EmailA     == <<"a", "@invisible.email">>
EmailAUp   == <<" ", "A", "@Invisible.Email", " ">>
EmailB     == <<"b", "@invisible.email">>
EmailOther == <<"a", "@gmail.com">>
Blank      == <<" ">>
Rate15     == <<"1", "5">>
Rate20     == <<"$", "2", "0">>
Rate12_50  == <<"$", "1", "2", ".", "5", "0">>
RateWord   == <<"tbd">>
ProjP      == <<"P">>
ProjLower  == <<"p">>
ProjPad    == <<" ", "P">>
ProjQ      == <<"Q">>
Time2_30   == <<"2", ":", "3", "0">>
Time2_30_15 == <<"2", ":", "3", "0", ":", "1", "5">>
TimePad    == <<" ", "1", ":", "0", "0", " ">>
TimeWord   == <<"soon">>
CommQA     == <<"QA", " ", "Review">>
CommLead   == <<"Lead">>
CommQualified == <<"qualified">>
DateJun15  == <<"2", "0", "2", "4", "-", "0", "6", "-", "1", "5">>
DateJun16  == <<"2", "0", "2", "4", "-", "0", "6", "-", "1", "6">>
DateJun31  == <<"2", "0", "2", "4", "-", "0", "6", "-", "3", "1">>
DateWord   == <<"yesterday">>

RosterRow(email, rate, team) ==
    ("Agent Email" :> email) @@ ("Rate" :> rate) @@ ("Team" :> team)

TimersRow(team, project, commodity, name, id) ==
    ("Team" :> team) @@ ("Hubstaff Project Names" :> project)
        @@ ("Pay Commodity" :> commodity) @@ ("Process Name (App)" :> name)
        @@ ("Process ID" :> id)

RawhsRow(client, project, date, member, email, time) ==
    ("Client" :> client) @@ ("Project" :> project) @@ ("Date" :> date)
        @@ ("Member" :> member) @@ ("Work email" :> email) @@ ("Time" :> time)

\* a CSV file with the given header; a column the row does not name holds "x"
File(cols, rows) ==
    [columns |-> cols,
     data    |-> [i \in 1..Len(rows) |->
                    [c \in SeqToSet(cols) |->
                        IF c \in DOMAIN rows[i] THEN rows[i][c] ELSE <<"x">>]]]

\* the files with the given header and up to max rows drawn from Rows
Files(cols, Rows, max) ==
    {File(cols, rows) : rows \in UNION {[1..n -> Rows] : n \in 0..max}}

\* the headers that keep some of the columns of cols, in order
Headers(cols) ==
    {LET pos == SortedSeq(S) IN [k \in 1..Len(pos) |-> cols[pos[k]]] :
        S \in SUBSET (1..Len(cols))}

DefaultRosterRow == RosterRow(EmailA, Rate20, <<"T">>)
DefaultTimersRow == TimersRow(<<"T">>, ProjP, CommQA, <<"Proc">>, <<"ID", "7">>)
DefaultRawhsRow  == RawhsRow(<<"C">>, ProjP, DateJun15, <<"M">>, EmailA, Time2_30)

Jun15 == Timestamp(2024, 6, 15)
Jun16 == Timestamp(2024, 6, 16)

InitOver(RosterFiles, TimersFiles, RawhsFiles, Todays) ==
    /\ pc = "read"
    /\ error = "none"
    /\ missing = <<>>
    /\ today \in Todays
    /\ roster_file \in RosterFiles
    /\ timers_file \in TimersFiles
    /\ rawhs_file \in RawhsFiles
    /\ roster = EmptyFrame
    /\ timers = EmptyFrame
    /\ raw_hs = EmptyFrame
    /\ warnings_roster = <<>>
    /\ warnings_timers = <<>>
    /\ warnings_rawhs = <<>>
    /\ merged = EmptyFrame
    /\ complete_csv = NoCsv
    /\ upload_csv = NoCsv

(* Joins: rosters with repeated, missing and blank emails, timers with     *)
(* repeated and missing project names                                      *)
MaxRoster == 2
MaxTimers == 2
MaxRawhs == 1

JoinRosterRows ==
    {RosterRow(e, r, <<"T">>) : e \in {NaN, Blank, EmailA, EmailAUp},
                                r \in {Rate15, Rate20}}
JoinTimersRows ==
    {TimersRow(<<"T">>, p, CommQA, <<"Proc">>, <<"ID", "7">>) :
        p \in {NaN, ProjP, ProjLower}}
JoinRawhsRows ==
    {RawhsRow(<<"C">>, p, DateJun15, <<"M">>, e, t) :
        p \in {NaN, ProjP, ProjQ}, e \in {NaN, Blank, EmailA, EmailB},
        t \in {Time2_30}}

Init ==
    InitOver(Files(RosterRequired, JoinRosterRows, MaxRoster),
             Files(TimersRequired, JoinTimersRows, MaxTimers),
             Files(RawhsRequired \o <<"Notes">>, JoinRawhsRows, MaxRawhs),
             {Jun15})

Spec == Init /\ [][Next]_vars

(* Schema: every header that drops some of the roster's columns, some of   *)
(* the timers' columns (with the column "Process Name" as a further        *)
(* candidate) and some of the last three export columns                    *)
TimersCandidates ==
    <<"Team", "Hubstaff Project Names", "Pay Commodity", "Process Name (App)",
      "Process Name", "Process ID">>

RawhsHeaders ==
    {<<"Client", "Project", "Date">> \o h : h \in Headers(<<"Member", "Work email", "Time">>)}

InitSchema ==
    InitOver({File(h, <<DefaultRosterRow>>) : h \in Headers(RosterRequired)},
             {File(h, <<DefaultTimersRow>>) : h \in Headers(TimersCandidates)},
             {File(h, <<DefaultRawhsRow>>) : h \in RawhsHeaders},
             {Jun15})

SpecSchema == InitSchema /\ [][Next]_vars

(* Row rules: one table at a time carries the rows with data problems      *)
MaxRuleRows == 2
MaxRuleRawhs == 1

RuleRosterRows ==
    {RosterRow(e, r, t) : e \in {NaN, EmailA, EmailAUp, EmailOther},
                          r \in {NaN, Rate20, Rate12_50, RateWord},
                          t \in {<<"T">>}}
        \cup {RosterRow(NaN, NaN, NaN)}
RuleTimersRows ==
    {TimersRow(<<"T">>, p, c, <<"Proc">>, i) :
        p \in {NaN, ProjP}, c \in {NaN, Blank, CommQA, CommLead, CommQualified},
        i \in {<<"ID", "7">>}}
        \cup {TimersRow(NaN, NaN, NaN, NaN, NaN)}
RuleRawhsRows ==
    {RawhsRow(<<"C">>, p, d, <<"M">>, e, t) :
        p \in {NaN, ProjP}, d \in {NaN, DateJun15, DateJun16, DateJun31, DateWord},
        e \in {NaN, EmailA, EmailOther},
        t \in {NaN, Blank, Time2_30, Time2_30_15, TimePad, TimeWord}}

DefaultRosterFiles == {File(RosterRequired, <<DefaultRosterRow>>)}
DefaultTimersFiles == {File(TimersRequired, <<DefaultTimersRow>>)}
DefaultRawhsFiles  == {File(RawhsRequired, <<DefaultRawhsRow>>)}

InitRules ==
    \/ InitOver(Files(RosterRequired, RuleRosterRows, MaxRuleRows),
                DefaultTimersFiles, DefaultRawhsFiles, {Jun15})
    \/ InitOver(DefaultRosterFiles,
                Files(TimersRequired, RuleTimersRows, MaxRuleRows),
                DefaultRawhsFiles, {Jun15})
    \/ InitOver(DefaultRosterFiles, DefaultTimersFiles,
                Files(RawhsRequired, RuleRawhsRows, MaxRuleRawhs), {Jun15, Jun16})

SpecRules == InitRules /\ [][Next]_vars

(* Project match: timers with missing, exact and padded project names      *)
MaxProjTimers == 2
MaxProjRawhs == 1

ProjTimersRows ==
    {TimersRow(<<"T">>, p, CommQA, <<"Proc">>, <<"ID", "7">>) :
        p \in {NaN, ProjP, ProjPad}}
ProjRawhsRows ==
    {RawhsRow(<<"C">>, p, DateJun15, <<"M">>, EmailA, t) :
        p \in {NaN, ProjP, ProjLower}, t \in {Time2_30_15, TimeWord}}

InitProject ==
    InitOver(Files(RosterRequired, {RosterRow(EmailA, Rate12_50, <<"T">>)}, 1),
             Files(TimersRequired, ProjTimersRows, MaxProjTimers),
             Files(RawhsRequired, ProjRawhsRows, MaxProjRawhs),
             {Jun15})

SpecProject == InitProject /\ [][Next]_vars

---------------------------------------------------------------------------
(* Properties *)

Finished == pc = "done"

SchemaErrors ==
    {"Roster file is missing required columns",
     "Timers file is missing required columns",
     "Raw hs export file is missing required columns"}

\* the schema check has run
SchemaChecked ==
    pc \notin {"read", "check_columns"} /\ error # "Error reading CSV files"

Lacks(file, required) == required \ SeqToSet(file.columns)

\* the names the first table that lacks any (roster, timers, export) lacks
FirstLacking(rosterSet, timersSet, rawhsSet) ==
    IF Lacks(roster_file, rosterSet) # {} THEN Lacks(roster_file, rosterSet)
    ELSE IF Lacks(timers_file, timersSet) # {} THEN Lacks(timers_file, timersSet)
    ELSE Lacks(rawhs_file, rawhsSet)

SchemaCheckIs(rosterSet, timersSet, rawhsSet) ==
    SchemaChecked =>
        /\ (error \in SchemaErrors) = (FirstLacking(rosterSet, timersSet, rawhsSet) # {})
        /\ error \in SchemaErrors =>
              /\ pc = "stopped"
              /\ SeqToSet(missing) = FirstLacking(rosterSet, timersSet, rawhsSet)
              /\ ~complete_csv.written
              /\ ~upload_csv.written
        /\ error \notin SchemaErrors => missing = <<>>

\* C1: the complete view has exactly as many rows as the time-entry table
C1_RowCountPreserved ==
    Finished => Len(complete_csv.rows) = NRows(raw_hs)

\* the roster rows (after normalization) whose email is e
RosterRowsOf(e) == {j \in 1..NRows(roster) : roster.data[j]["Agent Email"] = e}

\* C2: a time entry whose normalized email is carried by several roster rows
\* with different rates appears with the rate of the first of them only
C2_FirstRosterRateWins ==
    Finished =>
        \A i \in 1..NRows(merged) :
            LET rows == RosterRowsOf(merged.data[i]["Work email"])
            IN  (/\ merged.data[i]["Work email"] \notin {<<"nan">>, <<>>}
                 /\ Cardinality({roster.data[j]["Rate"] : j \in rows}) > 1)
                    => merged.data[i]["Rate"] = roster.data[SetMin(rows)]["Rate"]

\* C3 as amended: the schema check stops the run, writing neither view,
\* exactly when a table lacks a required column, the timers' set holding
\* "Process Name (App)", and reports the names the first such table lacks
C3_SchemaCheckExact ==
    SchemaCheckIs({"Agent Email", "Rate", "Team"},
                  {"Team", "Hubstaff Project Names", "Pay Commodity",
                   "Process Name (App)", "Process ID"},
                  {"Client", "Project", "Date", "Member", "Work email", "Time"})

\* C3 witness: the check stopped a run over a table lacking several columns
C3_Witness ==
    /\ pc = "stopped"
    /\ error = "Timers file is missing required columns"
    /\ Len(missing) >= 2
    /\ "Process Name (App)" \in SeqToSet(missing)

\* C3 as stated: the same with the timers' set holding "Process Name"
C3_SchemaCheckAsStated ==
    SchemaCheckIs({"Agent Email", "Rate", "Team"},
                  {"Team", "Hubstaff Project Names", "Pay Commodity",
                   "Process Name", "Process ID"},
                  {"Client", "Project", "Date", "Member", "Work email", "Time"})

\* C4: once the schema check has passed, nothing stops the run
C4_RowProblemsNeverAbort ==
    pc = "stopped" => error \in SchemaErrors \cup {"Error reading CSV files"}

\* the row labels the warnings list under a summary
Listed(warnings, summary) ==
    UNION {SeqToSet(warnings[k].details) :
              k \in {n \in 1..Len(warnings) : warnings[n].summary = summary}}

IsEmptyText(c) == IsNa(c) \/ Strip(c) = <<>>

\* C5: row by row, an empty Pay Commodity is listed as empty and not as
\* invalid, and a non-empty one without keyword is listed as invalid
C5_CommodityRowByRow ==
    pc = "rawhs_validations" =>
        \A i \in 1..NRows(timers) :
            LET c == timers.data[i]["Pay Commodity"]
                label == timers.index[i]
            IN  /\ IsEmptyText(c) =>
                      /\ label \in Listed(warnings_timers, "Empty 'Pay Commodity'")
                      /\ label \notin Listed(warnings_timers, "Invalid 'Pay Commodity'")
                /\ (~IsEmptyText(c) /\ ~PatternSearch(Strip(c))) =>
                      label \in Listed(warnings_timers, "Invalid 'Pay Commodity'")

\* the agents and rows of the duplicate-rate warning
WarnedAgents ==
    UNION {warnings_roster[k].agent_rows : k \in 1..Len(warnings_roster)}

\* C6: a duplicate-rate warning is emitted for a normalized email exactly
\* when its roster rows carry more than one rate, and lists all those rows
C6_DuplicateRateByNormalizedEmail ==
    pc = "timers_validations" =>
        \A e \in {NormalizeEmail(roster.data[i]["Agent Email"]) :
                    i \in {j \in 1..NRows(roster) : ~IsNa(roster.data[j]["Agent Email"])}} :
            LET rows == {i \in 1..NRows(roster) :
                            /\ ~IsNa(roster.data[i]["Agent Email"])
                            /\ NormalizeEmail(roster.data[i]["Agent Email"]) = e}
                rates == {roster.data[i]["Rate"] :
                            i \in {j \in rows : ~IsNa(roster.data[j]["Rate"])}}
                warned == {w \in WarnedAgents : NormalizeEmail(w.agent) = e}
            IN  /\ (Cardinality(rates) > 1) = (warned # {})
                /\ \A w \in warned :
                      SeqToSet(w.rows) = {roster.index[i] : i \in rows}

\* C7: the complete view's columns are the time-entry columns, then rate,
\* team, pay commodity, process name, process id and total, no join key
C7_NoJoinKeyColumns ==
    Finished =>
        complete_csv.header =
            raw_hs.columns \o <<"Rate", "Team", "Pay Commodity",
                                "Process Name (App)", "Process ID", "Total">>

\* row i of the joined table has a project name no timers row carries
Unmatched(i) ==
    \A j \in 1..NRows(timers) :
        timers.data[j]["Hubstaff Project Names"] # merged.data[i]["Project"]

TimersFieldsNull(i) ==
    \A c \in {"Team", "Pay Commodity", "Process Name (App)", "Process ID"} :
        /\ IsNa(merged.data[i][c])
        /\ complete_csv.rows[i][c] = <<>>

C9_TimeNormalization ==
    (Finished /\ NRows(merged) = NRows(raw_hs)) =>
        \A i \in 1..NRows(merged) :
            LET t == rawhs_file.data[raw_hs.index[i] + 1]["Time"]
                out == complete_csv.rows[i]["Time"]
            IN  /\ upload_csv.rows[i]["Hours"] = out
                /\ normalize_time_format(out) = out
                /\ IsEmptyText(t) => out = <<>>
                /\ (~IsEmptyText(t) /\ Count(t, ":") = 1) => out = Strip(t) \o <<":", "0", "0">>
                /\ (~IsEmptyText(t) /\ Count(t, ":") = 2) => out = Strip(t)

\* C10: an entry whose Work email is missing or empty has no rate and no
\* total in either view
C10_NoEmailNoRate ==
    Finished =>
        \A i \in 1..NRows(merged) :
            merged.data[i]["Work email"] \in {<<"nan">>, <<>>} =>
                /\ merged.data[i]["Rate"] = NullNum
                /\ merged.data[i]["Total"] = NullNum
                /\ complete_csv.rows[i]["Rate"] = <<>>
                /\ upload_csv.rows[i]["Rate"] = <<>>

===========================================================================
